---- MODULE Spec2Model ----
(***************************************************************************)
(* Model of the PPA projection engine of src/src/App.jsx: the financial    *)
(* primitives pmt, npv and irr, buildYearlyProjection,                     *)
(* buildMonthlyProjection, and the App component's input state with its    *)
(* onChange handler, after which both projections are recomputed.          *)
(*                                                                         *)
(* Numbers are exact rationals [n, d] with d > 0 in lowest terms, so every *)
(* equality below is an equality of exact arithmetic; the rounding of the  *)
(* floating-point operations themselves is not modelled.  Math.round is    *)
(* modelled as floor(x + 1/2).                                             *)
(***************************************************************************)
EXTENDS Integers, Sequences, FiniteSets, TLC

\* ------------------------------------------------------------- bounds
MaxYears == 2
MaxTenure == 2

\* -------------------------------------------------- program constants
daysPerYear == 365
monthsPerYear == 12

\* -------------------------------------------------- exact arithmetic
Abs(x) == IF x < 0 THEN -x ELSE x

RECURSIVE Gcd(_, _)
Gcd(a, b) == IF b = 0 THEN a ELSE Gcd(b, a % b)

\* the rational n/d (d # 0) in lowest terms with a positive denominator
Rat(n, d) ==
  LET g == Gcd(Abs(n), Abs(d))
      s == IF d < 0 THEN -1 ELSE 1
  IN  [n |-> s * (n \div g), d |-> s * (d \div g)]

R(i) == [n |-> i, d |-> 1]
Zero == R(0)
\* sums and comparisons go over the least common denominator, and products
\* cancel crosswise first, which keeps the intermediate integers small
Lcm(a, b) == (a \div Gcd(a, b)) * b
Add(a, b) ==
  LET l == Lcm(a.d, b.d)
  IN  Rat(a.n * (l \div a.d) + b.n * (l \div b.d), l)
Neg(a) == [n |-> -a.n, d |-> a.d]
Sub(a, b) == Add(a, Neg(b))
Mul(a, b) ==
  LET g == Gcd(Abs(a.n), b.d)
      h == Gcd(Abs(b.n), a.d)
  IN  Rat((a.n \div g) * (b.n \div h), (a.d \div h) * (b.d \div g))
Div(a, b) == Mul(a, Rat(b.d, b.n))
Leq(a, b) ==
  LET l == Lcm(a.d, b.d)
  IN  a.n * (l \div a.d) <= b.n * (l \div b.d)
Geq(a, b) == Leq(b, a)
IsZero(a) == a.n = 0

RECURSIVE PowNat(_, _)
PowNat(a, k) == IF k = 0 THEN R(1) ELSE Mul(a, PowNat(a, k - 1))

\* Math.pow(a, k) for an integer exponent k (a # 0 when k < 0)
Pow(a, k) == IF k >= 0 THEN PowNat(a, k) ELSE Div(R(1), PowNat(a, -k))

\* mutant: truncation towards -Infinity in place of rounding
Round_Floor(a) == a.n \div a.d

\* Math.round: the nearest integer, halves rounded towards +Infinity
Round(a) == (2 * a.n + a.d) \div (2 * a.d)

Min(a, b) == IF a <= b THEN a ELSE b
Max(a, b) == IF a >= b THEN a ELSE b

\* ------------------------------------------------------- JS values
Null == [t |-> "null", v |-> 0]
Num(i) == [t |-> "number", v |-> i]

\* ------------------------------------------------ financial primitives
\* mutant: the sign convention is dropped, the payment comes out positive
pmt_Unsigned(rate, nper, pv) ==
  IF IsZero(rate)
    THEN Div(pv, R(nper))
    ELSE Div(Mul(pv, rate), Sub(R(1), Pow(Add(R(1), rate), -nper)))

pmt(rate, nper, pv) ==
  IF IsZero(rate)
    THEN Neg(Div(pv, R(nper)))
    ELSE Div(Neg(Mul(pv, rate)), Sub(R(1), Pow(Add(R(1), rate), -nper)))

RECURSIVE npvReduce(_, _, _, _)
npvReduce(discountRate, cashflows, acc, i) ==
  IF i > Len(cashflows) THEN acc
  ELSE npvReduce(discountRate, cashflows,
                 Add(acc, Div(cashflows[i], Pow(Add(R(1), discountRate), i - 1))),
                 i + 1)

\* cashflows[i] is the flow of period i - 1; period 0 is undiscounted
npv(discountRate, cashflows) == npvReduce(discountRate, cashflows, Zero, 1)

\* The Newton-Raphson iteration runs in floating point, and its iterates are
\* not rationals of bounded size.  Its first pass is exact in the case where
\* every flow after period 0 is zero (also when there is no such flow): then
\* f = cashflows[0] and df = 0, so step = f / 0 is NaN for f = 0 and an
\* infinity of f's sign otherwise, rate - step is not finite and the loop
\* breaks at once.  In every other case the value the loop ends with is left
\* abstract ("iterated").  No statement of irr throws.
irr(cashflows) ==
  LET f == cashflows[1]
      dfIsZero == \A t \in 2..Len(cashflows) : IsZero(cashflows[t])
  IN  IF dfIsZero
        THEN IF IsZero(f) THEN [t |-> "NaN", v |-> 0]
             ELSE IF f.n > 0 THEN [t |-> "-Infinity", v |-> 0]
             ELSE [t |-> "Infinity", v |-> 0]
        ELSE [t |-> "iterated", v |-> 0]

\* isFinite(x) for the values irr can return; unknown for an abstract value
IsNonFinite(x) == x.t \in {"NaN", "Infinity", "-Infinity"}

\* ------------------------------------------------- yearly projection
Keys == {"capacityKw", "unitsPerKwDay", "degradationPct", "contractYears",
         "ppaTariff", "tariffEscalationPct", "capexPerKw", "upfrontPercent",
         "loanInterestPct", "loanTenureYears", "omrPerKwYear",
         "omrEscalationPct", "discountRatePct"}

Pct(p) == Rat(p, 100)

loanNperOf(c) == Max(0, Min(c.contractYears, c.loanTenureYears))

upfrontOf(c) == Mul(Pct(c.upfrontPercent), R(c.capacityKw * c.capexPerKw))

loanAmountOf(c) == Sub(R(c.capacityKw * c.capexPerKw), upfrontOf(c))

emiAnnualOf(c) ==
  IF loanNperOf(c) > 0
    THEN pmt(Pct(c.loanInterestPct), loanNperOf(c), loanAmountOf(c))
    ELSE Zero

year0Row(c) ==
  [year |-> 0, generationKwh |-> 0, tariff |-> Zero, revenue |-> Zero,
   omr |-> Zero, emi |-> Zero, net |-> Neg(upfrontOf(c))]

\* mutant: the factor is applied in year 1 too
escalate_FromYear1(y, value, factor) == Mul(value, factor)

\* if (y > 1) value = value * factor
escalate(y, value, factor) == IF y > 1 THEN Mul(value, factor) ELSE value

\* mutant: the installment is charged in every year of the contract
loanPaymentOf_EveryYear(c, y) == emiAnnualOf(c)

\* y <= loanNper ? emiAnnual : 0
loanPaymentOf(c, y) == IF y <= loanNperOf(c) THEN emiAnnualOf(c) ELSE Zero

\* the body of the loop over the years y..contractYears; gen, tariff and omr
\* are the values the loop variables hold when the pass for year y begins
RECURSIVE yearLoop(_, _, _, _, _, _)
yearLoop(c, y, gen, tariff, omr, rows) ==
  IF y > c.contractYears THEN rows
  ELSE LET gen1 == escalate(y, gen, Sub(R(1), Pct(c.degradationPct)))
           tariff1 == escalate(y, tariff, Add(R(1), Pct(c.tariffEscalationPct)))
           omr1 == escalate(y, omr, Add(R(1), Pct(c.omrEscalationPct)))
           revenue == Mul(gen1, tariff1)
           loanPayment == loanPaymentOf(c, y)
           net == Add(Sub(revenue, omr1), loanPayment)
           row == [year |-> y, generationKwh |-> Round(gen1), tariff |-> tariff1,
                   revenue |-> revenue, omr |-> omr1, emi |-> loanPayment,
                   net |-> net]
       IN  yearLoop(c, y + 1, gen1, tariff1, omr1, Append(rows, row))

year1GenOf(c) == R(c.capacityKw * c.unitsPerKwDay * daysPerYear)

yearRows(c) ==
  yearLoop(c, 1, year1GenOf(c), R(c.ppaTariff),
           R(c.capacityKw * c.omrPerKwYear), <<year0Row(c)>>)

\* rows[i] of the source is rows[i + 1] here: sequences start at 1
RECURSIVE paybackFrom(_, _, _)
paybackFrom(rows, i, cum) ==
  IF i >= Len(rows) THEN Null
  ELSE LET cum1 == Add(cum, rows[i + 1].net)
       IN  IF Geq(cum1, Zero) THEN Num(i) ELSE paybackFrom(rows, i + 1, cum1)

\* mutant: the running total has to exceed 0, not only reach it
RECURSIVE paybackFromStrict(_, _, _)
paybackFromStrict(rows, i, cum) ==
  IF i >= Len(rows) THEN Null
  ELSE LET cum1 == Add(cum, rows[i + 1].net)
       IN  IF ~Leq(cum1, Zero) THEN Num(i) ELSE paybackFromStrict(rows, i + 1, cum1)

paybackYearOf_Strict(rows) == paybackFromStrict(rows, 0, Zero)

paybackYearOf(rows) == paybackFrom(rows, 0, Zero)

RECURSIVE cumulativeReduce(_, _, _)
cumulativeReduce(rows, acc, i) ==
  IF i > Len(rows) THEN acc
  ELSE LET prev == IF Len(acc) # 0 THEN acc[Len(acc)].value ELSE Zero
       IN  cumulativeReduce(rows,
             Append(acc, [year |-> rows[i].year, value |-> Add(prev, rows[i].net)]),
             i + 1)

\* mutant: each entry holds the row's own net, the previous total is dropped
cumulativeOf_NoCarry(rows) ==
  [i \in 1..Len(rows) |-> [year |-> rows[i].year, value |-> rows[i].net]]

cumulativeOf(rows) == cumulativeReduce(rows, <<>>, 1)

cashflowsOf(rows) == [i \in 1..Len(rows) |-> rows[i].net]

\* try { return irr(cashflows) } catch { return null }: irr never throws
irrOrNull(cashflows) == irr(cashflows)

buildYearlyProjection(c) ==
  LET rows == yearRows(c)
      cashflows == cashflowsOf(rows)
  IN  [capexTotal |-> R(c.capacityKw * c.capexPerKw),
       upfront |-> upfrontOf(c),
       loanAmount |-> loanAmountOf(c),
       year1Gen |-> Round(year1GenOf(c)),
       year1Revenue |-> Mul(year1GenOf(c), R(c.ppaTariff)),
       emiAnnual |-> emiAnnualOf(c),
       paybackYear |-> paybackYearOf(rows),
       npv |-> npv(Pct(c.discountRatePct), cashflows),
       irr |-> irrOrNull(cashflows),
       cumulative |-> cumulativeOf(rows),
       rows |-> rows]

\* ------------------------------------------------ monthly projection
months == <<"Jan", "Feb", "Mar", "Apr", "May", "Jun",
            "Jul", "Aug", "Sep", "Oct", "Nov", "Dec">>

\* mutant: the key names the year only
monthKey_YearOnly(y, m) == "Y" \o ToString(y)

monthKey(y, m) == "Y" \o ToString(y) \o "-M" \o ToString(m + 1)

monthLabel(y) == "Y" \o ToString(y)

\* mutant: the year-0 outlay is left out of the placeholder row
month0Row_NoOutlay(yearly) ==
  [key |-> "Y0-M0", label |-> "Y0", month |-> "-", generationKwh |-> 0,
   tariff |-> Zero, revenue |-> Zero, omr |-> Zero, emi |-> Zero,
   net |-> Zero]

month0Row(yearly) ==
  [key |-> "Y0-M0", label |-> "Y0", month |-> "-", generationKwh |-> 0,
   tariff |-> Zero, revenue |-> Zero, omr |-> Zero, emi |-> Zero,
   net |-> yearly.rows[1].net]

\* mutant: the year's net is copied into every month instead of split
monthlyShare_NetNotSplit(yr) ==
  [generationKwh |-> Round(Div(R(yr.generationKwh), R(monthsPerYear))),
   tariff |-> yr.tariff,
   revenue |-> Div(yr.revenue, R(monthsPerYear)),
   omr |-> Div(yr.omr, R(monthsPerYear)),
   emi |-> Div(yr.emi, R(monthsPerYear)),
   net |-> yr.net]

\* the per-month values of the year row yr, computed once for the year
monthlyShare(yr) ==
  [generationKwh |-> Round(Div(R(yr.generationKwh), R(monthsPerYear))),
   tariff |-> yr.tariff,
   revenue |-> Div(yr.revenue, R(monthsPerYear)),
   omr |-> Div(yr.omr, R(monthsPerYear)),
   emi |-> Div(yr.emi, R(monthsPerYear)),
   net |-> Div(yr.net, R(monthsPerYear))]

\* the row pushed for month index m (0..11) of year y
monthRow(share, y, m) ==
  [key |-> monthKey(y, m), label |-> monthLabel(y), month |-> months[m + 1],
   generationKwh |-> share.generationKwh, tariff |-> share.tariff,
   revenue |-> share.revenue, omr |-> share.omr, emi |-> share.emi,
   net |-> share.net]

monthsOfYear(yr, y) ==
  LET share == monthlyShare(yr)
  IN  [i \in 1..Len(months) |-> monthRow(share, y, i - 1)]

RECURSIVE monthLoop(_, _, _)
monthLoop(yearly, y, rows) ==
  IF y >= Len(yearly.rows) THEN rows
  ELSE monthLoop(yearly, y + 1, rows \o monthsOfYear(yearly.rows[y + 1], y))

monthRows(yearly) == monthLoop(yearly, 1, <<month0Row(yearly)>>)

RECURSIVE runningTotals(_, _, _, _)
runningTotals(rows, cum, acc, i) ==
  IF i > Len(rows) THEN acc
  ELSE runningTotals(rows, Add(cum, rows[i].net),
                     Append(acc, Add(cum, rows[i].net)), i + 1)

buildMonthlyProjection(yearly) ==
  LET rows == monthRows(yearly)
  IN  [rows |-> rows, cumulative |-> runningTotals(rows, Zero, <<>>, 1)]

\* ------------------------------------------------------- the App state
VARIABLES inputs, yearly, monthly

vars == <<inputs, yearly, monthly>>

\* the values an input field is set to
Values(key) ==
  CASE key = "capacityKw" -> {0, 1}
    [] key = "unitsPerKwDay" -> {3}
    [] key = "degradationPct" -> {0, 50}
    [] key = "contractYears" -> 0..MaxYears
    [] key = "ppaTariff" -> {1, 2}
    [] key = "tariffEscalationPct" -> {0, 50}
    [] key = "capexPerKw" -> {2700}
    [] key = "upfrontPercent" -> {0, 20, 100, 150}
    [] key = "loanInterestPct" -> {0, 50}
    [] key = "loanTenureYears" -> 0..MaxTenure
    [] key = "omrPerKwYear" -> {800}
    [] key = "omrEscalationPct" -> {0, 50}
    [] key = "discountRatePct" -> {25}

initialInputs ==
  [capacityKw |-> 1, unitsPerKwDay |-> 3, degradationPct |-> 0,
   contractYears |-> MaxYears, ppaTariff |-> 2, tariffEscalationPct |-> 0,
   capexPerKw |-> 2700, upfrontPercent |-> 20, loanInterestPct |-> 50,
   loanTenureYears |-> 1, omrPerKwYear |-> 800, omrEscalationPct |-> 0,
   discountRatePct |-> 25]

\* useMemo: both projections are recomputed from the inputs on every render
Rendered(in, y, m) ==
  /\ y = buildYearlyProjection(in)
  /\ m = buildMonthlyProjection(y)

Init ==
  /\ inputs = initialInputs
  /\ Rendered(inputs, yearly, monthly)

onChange(key, val) ==
  /\ inputs' = [inputs EXCEPT ![key] = val]
  /\ Rendered(inputs', yearly', monthly')

Next == \E key \in Keys : \E val \in Values(key) : onChange(key, val)

Spec == Init /\ [][Next]_vars

\* ------------------------------------------------- the rendered KPIs
\* the truthiness of a value that is null or a number: null and 0 are falsy
Truthy(x) == x.t = "number" /\ x.v # 0

\* the text of the "Simple Payback" box:
\* yearly.paybackYear ? `${yearly.paybackYear} yrs` : 'beyond term'
paybackKpi(y) ==
  IF Truthy(y.paybackYear)
    THEN ToString(y.paybackYear.v) \o " yrs"
    ELSE "beyond term"

\* ------------------------------------------------------------ claims
\* rows[y] and cumulative[y] of the source, for a year or row index y >= 0
yrow(y) == yearly.rows[y + 1]
mrow(i) == monthly.rows[i + 1]
lastYear == Len(yearly.rows) - 1

RECURSIVE SumNetFrom(_, _, _, _)
\* acc plus the sum of rows[j..i].net
SumNetFrom(rows, j, i, acc) ==
  IF j > i THEN acc ELSE SumNetFrom(rows, j + 1, i, Add(acc, rows[j + 1].net))

\* the sum of rows[0..i].net
SumNet(rows, i) == SumNetFrom(rows, 0, i, Zero)

InLoanWindow(y) ==
  1 <= y /\ y <= Min(inputs.contractYears, inputs.loanTenureYears)

PaidBack == {i \in 0..lastYear : Geq(SumNet(yearly.rows, i), Zero)}

\* C2: paybackYear is the smallest row index (year 0 included) whose running
\* total of net is >= 0, and null exactly when no index in 0..contractYears
\* has one.
C2_PaybackYear ==
  /\ lastYear = Max(0, inputs.contractYears)
  /\ PaidBack = {} <=> yearly.paybackYear = Null
  /\ PaidBack # {} =>
       /\ yearly.paybackYear.t = "number"
       /\ yearly.paybackYear.v \in PaidBack
       /\ \A i \in PaidBack : yearly.paybackYear.v <= i

\* payback in year 2, after two years with a negative running total
C2_Witness ==
  /\ yearly.paybackYear = Num(2)
  /\ ~Geq(SumNet(yearly.rows, 1), Zero)

\* C3: cumulative is as long as rows, cumulative[i].year = rows[i].year = i,
\* and cumulative[i].value is the sum of rows[0..i].net.
C3_Cumulative ==
  /\ Len(yearly.cumulative) = Len(yearly.rows)
  /\ \A i \in 0..lastYear :
       /\ yearly.cumulative[i + 1].year = i
       /\ yrow(i).year = i
       /\ yearly.cumulative[i + 1].value = SumNet(yearly.rows, i)

C3_Witness ==
  /\ lastYear >= 2
  /\ \A i \in 0..lastYear : ~IsZero(yrow(i).net)

\* C4 (as stated): when the IRR iteration ends with a non-finite rate,
\* summary.irr is null.
C4_NonFiniteIrrIsNull ==
  IsNonFinite(irr(cashflowsOf(yearly.rows))) => yearly.irr = Null

\* a single-row projection (contractYears = 0): irr returns Infinity
C4_Witness ==
  /\ lastYear = 0
  /\ IsNonFinite(yearly.irr)

JanToDec == <<"Jan", "Feb", "Mar", "Apr", "May", "Jun",
              "Jul", "Aug", "Sep", "Oct", "Nov", "Dec">>

lastMonthRow == Len(monthly.rows) - 1

\* the index in monthly.rows of month m (0..11) of year y >= 1
MonthIndex(y, m) == 12 * (y - 1) + m + 1

\* C5: the monthly projection has 1 + 12 * (yearly.rows.length - 1) rows: the
\* year-0 placeholder (month "-", financial fields 0, net of yearly row 0),
\* then for each year y >= 1 in order 12 rows labelled "Y{y}" with the months
\* Jan..Dec in order and the tariff of yearly row y; the keys are pairwise
\* distinct; cumulative is as long as rows and cumulative[i] is the sum of
\* rows[0..i].net, stated as cumulative[0] = rows[0].net and
\* cumulative[i] = cumulative[i-1] + rows[i].net.
C5_MonthlyShape ==
  /\ Len(monthly.rows) = 1 + 12 * (Len(yearly.rows) - 1)
  /\ mrow(0).month = "-"
  /\ mrow(0).generationKwh = 0
  /\ \A f \in {"tariff", "revenue", "omr", "emi"} : IsZero(mrow(0)[f])
  /\ mrow(0).net = yrow(0).net
  /\ \A y \in 1..lastYear : \A m \in 0..11 :
       /\ mrow(MonthIndex(y, m)).label = "Y" \o ToString(y)
       /\ mrow(MonthIndex(y, m)).month = JanToDec[m + 1]
       /\ mrow(MonthIndex(y, m)).tariff = yrow(y).tariff
  /\ \A i, j \in 0..lastMonthRow : i # j => mrow(i).key # mrow(j).key
  /\ Len(monthly.cumulative) = Len(monthly.rows)
  /\ monthly.cumulative[1] = mrow(0).net
  /\ \A i \in 1..lastMonthRow :
       monthly.cumulative[i + 1] = Add(monthly.cumulative[i], mrow(i).net)

C5_Witness ==
  /\ lastYear >= 2
  /\ ~IsZero(yrow(1).tariff)
  /\ yrow(2).tariff # yrow(1).tariff

RECURSIVE SumMonths(_, _, _)
\* the sum of field f over the months m..11 of year y
SumMonths(y, f, m) ==
  IF m > 11 THEN Zero
  ELSE Add(mrow(MonthIndex(y, m))[f], SumMonths(y, f, m + 1))

\* C6: in exact arithmetic the net, revenue, omr and emi of the 12 monthly
\* rows of every year y >= 1 add up to the value of yearly row y.
C6_MonthlySums ==
  \A y \in 1..lastYear : \A f \in {"net", "revenue", "omr", "emi"} :
    SumMonths(y, f, 0) = yrow(y)[f]

\* a year whose net, revenue, omr and emi are all non-zero
C6_Witness ==
  \E y \in 1..lastYear : \A f \in {"net", "revenue", "omr", "emi"} :
    ~IsZero(yrow(y)[f])

RECURSIVE SumMonthsGen(_, _)
\* the sum of generationKwh over the months m..11 of year y
SumMonthsGen(y, m) ==
  IF m > 11 THEN 0
  ELSE mrow(MonthIndex(y, m)).generationKwh + SumMonthsGen(y, m + 1)

\* C7 (as stated): the generationKwh of the 12 monthly rows of every year
\* y >= 1 add up to the generationKwh of yearly row y.
C7_GenerationSumsExactly ==
  \A y \in 1..lastYear : SumMonthsGen(y, 0) = yrow(y).generationKwh

\* C7 (amended): the generationKwh of the 12 monthly rows of every year y >= 1
\* add up to a multiple of 12 that differs from the generationKwh of yearly row
\* y by at most 6, and equals it exactly when that is a multiple of 12.
C7_GenerationSumsWithin6 ==
  \A y \in 1..lastYear :
    /\ SumMonthsGen(y, 0) % 12 = 0
    /\ Abs(SumMonthsGen(y, 0) - yrow(y).generationKwh) <= 6
    /\ SumMonthsGen(y, 0) = yrow(y).generationKwh <=> yrow(y).generationKwh % 12 = 0

\* a year whose monthly rows add up to more, and one where they add up to less
C7_Witness ==
  /\ \E y \in 1..lastYear : SumMonthsGen(y, 0) > yrow(y).generationKwh
  /\ \E y \in 1..lastYear : SumMonthsGen(y, 0) < yrow(y).generationKwh

InstallmentPrecondition ==
  /\ inputs.upfrontPercent \in 0..100
  /\ inputs.capacityKw >= 0
  /\ inputs.capexPerKw >= 0
  /\ inputs.loanInterestPct >= 0

\* C8: with upfrontPercent in 0..100 and capacityKw, capexPerKw and
\* loanInterestPct not negative, summary.emiAnnual <= 0 and rows[y].emi <= 0
\* for every row; with zero loan tenure or zero loan amount the installment
\* is 0.
C8_InstallmentIsOutflow ==
  InstallmentPrecondition =>
    /\ Leq(yearly.emiAnnual, Zero)
    /\ \A y \in 0..lastYear : Leq(yrow(y).emi, Zero)
    /\ (inputs.loanTenureYears = 0 \/ IsZero(yearly.loanAmount)) =>
         /\ IsZero(yearly.emiAnnual)
         /\ \A y \in 0..lastYear : IsZero(yrow(y).emi)

\* a loan with interest that is being repaid
C8_Witness ==
  /\ InstallmentPrecondition
  /\ inputs.loanInterestPct > 0
  /\ ~IsZero(yearly.emiAnnual)
  /\ lastYear >= 1
  /\ yrow(1).emi = yearly.emiAnnual

\* C9: for y >= 2, rows[y].tariff = rows[y-1].tariff * (1 + tariffEscalationPct/100)
\* and rows[y].omr = rows[y-1].omr * (1 + omrEscalationPct/100); the generation
\* of year y is the year-1 generation times (1 - degradationPct/100)^(y-1),
\* rounded; row 1 carries ppaTariff, capacityKw * omrPerKwYear and the year-1
\* generation.
C9_Escalation ==
  /\ \A y \in 2..lastYear :
       /\ yrow(y).tariff =
            Mul(yrow(y - 1).tariff, Add(R(1), Pct(inputs.tariffEscalationPct)))
       /\ yrow(y).omr =
            Mul(yrow(y - 1).omr, Add(R(1), Pct(inputs.omrEscalationPct)))
  /\ \A y \in 1..lastYear :
       yrow(y).generationKwh =
         Round(Mul(R(inputs.capacityKw * inputs.unitsPerKwDay * 365),
                   PowNat(Sub(R(1), Pct(inputs.degradationPct)), y - 1)))
  /\ lastYear >= 1 =>
       /\ yrow(1).tariff = R(inputs.ppaTariff)
       /\ yrow(1).omr = R(inputs.capacityKw * inputs.omrPerKwYear)
       /\ yrow(1).generationKwh = yearly.year1Gen

\* two contract years with every escalation and the degradation at work
C9_Witness ==
  /\ lastYear >= 2
  /\ yrow(2).tariff # yrow(1).tariff
  /\ yrow(2).omr # yrow(1).omr
  /\ yrow(2).generationKwh # yrow(1).generationKwh

\* C10: in exact arithmetic the monthly running total at the last row of year
\* y (index 12 * y) equals the yearly running total cumulative[y].value, for
\* every y in 0..contractYears.
C10_CumulativesAgree ==
  /\ lastMonthRow = 12 * lastYear
  /\ \A y \in 0..lastYear :
       monthly.cumulative[12 * y + 1] = yearly.cumulative[y + 1].value

C10_Witness ==
  /\ lastYear >= 2
  /\ \A y \in 0..lastYear : ~IsZero(yrow(y).net)
  /\ ~IsZero(monthly.cumulative[12 * lastYear + 1])

\* C11 (as stated): the payback box shows 'beyond term' only when
\* summary.paybackYear is null; for every non-null paybackYear, 0 included, it
\* shows that year count.
C11_BeyondTermOnlyWhenNull ==
  /\ paybackKpi(yearly) = "beyond term" => yearly.paybackYear = Null
  /\ yearly.paybackYear # Null =>
       paybackKpi(yearly) = ToString(yearly.paybackYear.v) \o " yrs"

\* nothing paid upfront: the running total is 0 at year 0 and paybackYear is 0
C11_Witness ==
  /\ inputs.upfrontPercent = 0
  /\ yearly.paybackYear = Num(0)
  /\ paybackKpi(yearly) = "beyond term"

====
